---- MODULE Spec2Model ----
(***************************************************************************)
(* Model of the tracer session manager of src-tauri/src/lib.rs:            *)
(* the shared slot Mutex<Option<Tracer>>, the command get_tracer_data      *)
(* executed by concurrent callers, and the spawned trace processes with    *)
(* their pipes.                                                            *)
(***************************************************************************)
EXTENDS Integers, Sequences, FiniteSets, TLC

(***************************************************************************)
(* Bounds of the model.                                                    *)
(***************************************************************************)
\* total number of get_tracer_data invocations in one behaviour
MaxCalls == 2

\* the concurrent callers (worker threads of the host application)
Threads == {1, 2}

\* the worker thread that runs get_function_signature
SigCaller == 3

\* the longest line, newline apart, given to the line-to-result mapping when
\* it is checked on its own
MaxLineLen == 3

\* the TraceRequests a caller may send: two flows, one of them with two
\* argument lists and two stop lines
Requests ==
    { [entry_full_id |-> "f1", args_json |-> "[]", stop_line |-> 5],
      [entry_full_id |-> "f1", args_json |-> "[1]", stop_line |-> 5],
      [entry_full_id |-> "f1", args_json |-> "[]", stop_line |-> 20],
      [entry_full_id |-> "f2", args_json |-> "[]", stop_line |-> 5] }

(***************************************************************************)
(* Text.  A line is a sequence of one-character strings.                   *)
(***************************************************************************)
NL == "\n"
BadByte == "\\xFF"
Whitespace == {" ", NL}

\* a character whose UTF-8 encoding has two bytes
WideChar == "\\u00E9"

\* char::len_utf8
len_utf8(c) == IF c = WideChar THEN 2 ELSE 1

\* str::len, in bytes
len(s) == Len(s) + Cardinality({i \in 1..Len(s) : len_utf8(s[i]) = 2})

\* str::is_char_boundary
is_char_boundary(s, k) == \E i \in 0..Len(s) : len(SubSeq(s, 1, i)) = k

\* the characters of &s[..k], for k a char boundary of s
slice_to(s, k) ==
    SubSeq(s, 1, CHOOSE i \in 0..Len(s) : len(SubSeq(s, 1, i)) = k)

\* the length above which the received line is logged cut: line.len() > 200
LogLimit == 200

\* the length above which the text of a parse failure is cut: line.len() > 500
ErrLimit == 500

\* if s.len() > limit { format!("{}...", &s[..limit]) } else { s.to_string() }
\* indexing a str at a byte that is no char boundary panics
cut_panics(s, limit) == len(s) > limit /\ ~is_char_boundary(s, limit)

cut(s, limit) ==
    IF len(s) > limit THEN slice_to(s, limit) \o <<".", ".", ".">> ELSE s

Str_Error == <<"E", "r", "r", "o", "r", ":">>
Str_Exception == <<"E", "x", "c", "e", "p", "t", "i", "o", "n">>
Str_Traceback == <<"T", "r", "a", "c", "e", "b", "a", "c", "k">>

DigitChars == <<"0", "1", "2", "3", "4", "5", "6", "7", "8", "9">>

DigitOf(c) == (CHOOSE i \in 1..10 : DigitChars[i] = c) - 1

IsDigit(c) == \E i \in 1..10 : DigitChars[i] = c

RECURSIVE NatToString(_)
NatToString(n) ==
    IF n < 10 THEN <<DigitChars[n + 1]>>
    ELSE NatToString(n \div 10) \o <<DigitChars[(n % 10) + 1]>>

\* i32::to_string / Display for i32
to_string(n) == IF n < 0 THEN <<"-">> \o NatToString(0 - n) ELSE NatToString(n)

\* variant: write! in place of writeln!, no newline
write_fmt_no_newline(stop_line) == to_string(stop_line)

\* writeln!(stdin, "{}", stop_line): the decimal digits, then a newline
writeln_fmt(stop_line) == to_string(stop_line) \o <<NL>>

RECURSIVE trim_start(_)
trim_start(s) ==
    IF s # <<>> /\ Head(s) \in Whitespace THEN trim_start(Tail(s)) ELSE s

RECURSIVE trim_end(_)
trim_end(s) ==
    IF s # <<>> /\ s[Len(s)] \in Whitespace
    THEN trim_end(SubSeq(s, 1, Len(s) - 1))
    ELSE s

\* str::trim
trim(s) == trim_end(trim_start(s))

\* str::starts_with
starts_with(s, p) == Len(s) >= Len(p) /\ SubSeq(s, 1, Len(p)) = p

RECURSIVE DigitsValue(_)
DigitsValue(s) ==
    IF s = <<>> THEN 0
    ELSE 10 * DigitsValue(SubSeq(s, 1, Len(s) - 1)) + DigitOf(s[Len(s)])

IsJsonNumber(s) ==
    /\ s # <<>>
    /\ \A i \in 1..Len(s) : IsDigit(s[i])
    /\ (Len(s) > 1 => s[1] # "0")

\* a JSON string without escapes: a quote, characters, a quote
IsJsonString(s) ==
    /\ Len(s) >= 2
    /\ s[1] = "\"" /\ s[Len(s)] = "\""
    /\ \A i \in 2..(Len(s) - 1) : s[i] \notin {"\"", "\\", NL}

\* serde_json::from_str::<Value>, on the JSON texts the model's processes
\* can produce: unsigned integers, strings without escapes, {} and [];
\* anything else is a parse error
from_str(s) ==
    LET t == trim(s) IN
    IF IsJsonNumber(t)
    THEN [ok |-> TRUE, value |-> [json |-> "number", n |-> DigitsValue(t), s |-> <<>>]]
    ELSE IF IsJsonString(t)
    THEN [ok |-> TRUE, value |-> [json |-> "string", n |-> 0, s |-> SubSeq(t, 2, Len(t) - 1)]]
    ELSE IF t = <<"{", "}">> THEN [ok |-> TRUE, value |-> [json |-> "object", n |-> 0, s |-> <<>>]]
    ELSE IF t = <<"[", "]">> THEN [ok |-> TRUE, value |-> [json |-> "array", n |-> 0, s |-> <<>>]]
    ELSE [ok |-> FALSE, value |-> [json |-> "error", n |-> 0, s |-> <<>>]]

\* String::from_utf8 as done inside BufRead::read_line
is_utf8(s) == \A i \in 1..Len(s) : s[i] # BadByte

(***************************************************************************)
(* State.                                                                  *)
(***************************************************************************)
VARIABLES
    tracer,            \* the Option<Tracer> inside the SharedTracer mutex
    owner,             \* the thread holding the mutex guard, 0 when free
    procs,             \* every trace process spawned so far, by pid
    calls,             \* get_tracer_data invocations made so far
    pc,                \* each thread's position in get_tracer_data
    req,               \* each thread's TraceRequest
    first_time,        \* local of get_tracer_data
    needs_new_tracer,  \* local of get_tracer_data
    line,              \* local of get_tracer_data
    read_result,       \* local of get_tracer_data
    result,            \* what the invocation returned to its caller
    ops,               \* what the invocation did to trace processes, in order
    seen               \* the slot's content when the invocation took the lock

vars == <<tracer, owner, procs, calls, pc, req, first_time, needs_new_tracer,
          line, read_result, result, ops, seen>>

locals == <<first_time, needs_new_tracer, line, read_result>>

\* Option<Tracer>: None, or Some(Tracer { child, stdin, stderr, current_flow })
\* where the pipe ends are those of process `child`
None == [child |-> 0, current_flow |-> ""]

Some(pid, flow) == [child |-> pid, current_flow |-> flow]

\* variant of NewTracer: a replacement keeps the old current_flow
NewTracerKeepingFlow(old, pid, flow) ==
    Some(pid, IF old.child # 0 THEN old.current_flow ELSE flow)

\* Ok(Self { child, .., current_flow: Some(req.entry_full_id.clone()) })
NewTracer(old, pid, flow) == Some(pid, flow)

is_some(o) == o.child # 0

is_none(o) == o.child = 0

NoReq == [entry_full_id |-> "", args_json |-> "", stop_line |-> 0]

NoResult == [kind |-> "pending", status |-> "none", text |-> <<>>, value |-> 0]

Ok(v) == [kind |-> "Ok", status |-> "none", text |-> <<>>, value |-> v]

Err(kind, status, text) == [kind |-> kind, status |-> status, text |-> text, value |-> 0]

Op(name, pid, data) == [op |-> name, pid |-> pid, data |-> data]

Pids == 1..Len(procs)

\* the state of the mutex after a thread panicked while holding its guard
Poisoned == -1

\* the positions of get_tracer_data at which the mutex guard is alive
Critical == {"spawn_first", "check_flow", "kill", "wait", "spawn_new", "send",
             "flush", "try_wait1", "read", "try_wait2", "match", "codec"}

\* the child process and pipes created by Tracer::spawn for a request
NewProc(r) ==
    [entry_full_id |-> r.entry_full_id, args_json |-> r.args_json, stop_line |-> r.stop_line,
     state |-> "running", status |-> "none", reaped |-> FALSE,
     stdin |-> <<>>, stderr |-> <<>>, errOpen |-> TRUE,
     owed |-> 1, target |-> to_string(r.stop_line)]

Init ==
    /\ tracer = None
    /\ owner = 0
    /\ procs = <<>>
    /\ calls = 0
    /\ pc = [t \in Threads \cup {SigCaller} |-> "idle"]
    /\ req = [t \in Threads |-> NoReq]
    /\ first_time = [t \in Threads |-> FALSE]
    /\ needs_new_tracer = [t \in Threads |-> FALSE]
    /\ line = [t \in Threads |-> <<>>]
    /\ read_result = [t \in Threads |-> "none"]
    /\ result = [t \in Threads \cup {SigCaller} |-> NoResult]
    /\ ops = [t \in Threads |-> <<>>]
    /\ seen = [t \in Threads |-> None]

(***************************************************************************)
(* get_tracer_data, one action per step of its body.                       *)
(***************************************************************************)
\* every exit of get_tracer_data: the value goes to the caller and the
\* MutexGuard tracer_guard is dropped with the scope
Return(t, res) ==
    /\ result' = [result EXCEPT ![t] = res]
    /\ pc' = [pc EXCEPT ![t] = "idle"]
    /\ owner' = 0
    /\ first_time' = [first_time EXCEPT ![t] = FALSE]
    /\ needs_new_tracer' = [needs_new_tracer EXCEPT ![t] = FALSE]
    /\ line' = [line EXCEPT ![t] = <<>>]
    /\ read_result' = [read_result EXCEPT ![t] = "none"]
    /\ UNCHANGED seen

\* a panic of get_tracer_data: the thread unwinds without a result; a guard
\* dropped while unwinding poisons the mutex
Panic(t, held) ==
    /\ pc' = [pc EXCEPT ![t] = "panicked"]
    /\ owner' = IF held THEN Poisoned ELSE owner
    /\ first_time' = [first_time EXCEPT ![t] = FALSE]
    /\ needs_new_tracer' = [needs_new_tracer EXCEPT ![t] = FALSE]
    /\ line' = [line EXCEPT ![t] = <<>>]
    /\ read_result' = [read_result EXCEPT ![t] = "none"]
    /\ UNCHANGED <<result, seen>>

\* variant: the lock is taken without waiting for the guard's release
lock_free_unguarded == TRUE

\* Mutex::lock succeeds when no other guard is alive
lock_free == owner = 0

\* variant: the arguments the process was started with are compared too
needs_new_with_args(tr, r) ==
    is_some(tr) /\ (tr.current_flow # r.entry_full_id
                     \/ procs[tr.child].args_json # r.args_json)

\* tracer.current_flow.as_deref() != Some(&req.entry_full_id)
needs_new(tr, r) == is_some(tr) /\ tr.current_flow # r.entry_full_id

\* variant: only the very first spawn counts as a first call
is_first_call_first_time_only(ft, nn) == ft

\* let is_first_call = first_time || needs_new_tracer
is_first_call(ft, nn) == ft \/ nn

\* variant: the replacement is spawned without killing the old process
after_check_no_kill(nn) == IF nn THEN "spawn_new" ELSE "send"

\* the branch taken on needs_new_tracer: kill and wait, or go on to the step
after_check(nn) == IF nn THEN "kill" ELSE "send"

\* what Child::try_wait reports: the exit status once the process has exited
try_wait(p) == IF procs[p].state = "exited" THEN procs[p].status ELSE "none"

\* the process table after wait/try_wait has collected the exit of p
Reap(p) == [procs EXCEPT ![p].reaped = TRUE]

\* the process table after the Tracer in `old` was dropped by an assignment
\* to the slot: the controller's ends of its pipes are closed and what they
\* held is gone
DropHandles(old) ==
    IF is_none(old) THEN procs
    ELSE [procs EXCEPT ![old.child].stdin = <<>>, ![old.child].stderr = <<>>,
                       ![old.child].owed = 0, ![old.child].target = <<>>]

\* a caller invokes the command with some TraceRequest
Call(t) ==
    /\ pc[t] = "idle"
    /\ calls < MaxCalls
    /\ \E r \in Requests : req' = [req EXCEPT ![t] = r]
    /\ calls' = calls + 1
    /\ pc' = [pc EXCEPT ![t] = "lock"]
    /\ result' = [result EXCEPT ![t] = NoResult]
    /\ ops' = [ops EXCEPT ![t] = <<>>]
    /\ seen' = [seen EXCEPT ![t] = None]
    /\ first_time' = [first_time EXCEPT ![t] = FALSE]
    /\ needs_new_tracer' = [needs_new_tracer EXCEPT ![t] = FALSE]
    /\ line' = [line EXCEPT ![t] = <<>>]
    /\ read_result' = [read_result EXCEPT ![t] = "none"]
    /\ UNCHANGED <<tracer, owner, procs>>

\* let mut tracer_guard = tracer_state.lock().unwrap();
\* let first_time = tracer_guard.is_none();
Acquire(t) ==
    /\ pc[t] = "lock"
    /\ lock_free
    /\ owner' = t
    /\ seen' = [seen EXCEPT ![t] = tracer]
    /\ first_time' = [first_time EXCEPT ![t] = is_none(tracer)]
    /\ pc' = [pc EXCEPT ![t] = IF is_none(tracer) THEN "spawn_first" ELSE "check_flow"]
    /\ UNCHANGED <<tracer, procs, calls, req, needs_new_tracer, line, read_result,
                   result, ops>>

\* tracer_state.lock().unwrap() on a poisoned mutex: lock returns Err and
\* unwrap panics
LockPoisoned(t) ==
    /\ pc[t] = "lock"
    /\ owner = Poisoned
    /\ Panic(t, FALSE)
    /\ UNCHANGED <<tracer, procs, calls, req, ops>>

\* *tracer_guard = Some(Tracer::spawn(&req)?), the process starting or not
Spawn(t, next) ==
    \E started \in BOOLEAN :
       IF started
       THEN /\ procs' = Append(DropHandles(tracer), NewProc(req[t]))
            /\ tracer' = NewTracer(tracer, Len(procs) + 1, req[t].entry_full_id)
            /\ ops' = [ops EXCEPT ![t] = Append(@, Op("spawn", Len(procs) + 1, <<>>))]
            /\ pc' = [pc EXCEPT ![t] = next]
            /\ UNCHANGED <<owner, result, locals, seen>>
       ELSE /\ Return(t, Err("SpawnError", "none", <<>>))
            /\ UNCHANGED <<procs, tracer, ops>>

\* if first_time { *tracer_guard = Some(Tracer::spawn(&req)?); }
SpawnFirst(t) ==
    /\ pc[t] = "spawn_first"
    /\ Spawn(t, "check_flow")
    /\ UNCHANGED <<calls, req>>

\* let needs_new_tracer = ...; if needs_new_tracer { ... }
CheckFlow(t) ==
    /\ pc[t] = "check_flow"
    /\ needs_new_tracer' = [needs_new_tracer EXCEPT ![t] = needs_new(tracer, req[t])]
    /\ pc' = [pc EXCEPT ![t] = after_check(needs_new(tracer, req[t]))]
    /\ UNCHANGED <<tracer, owner, procs, calls, req, first_time, line, read_result,
                   result, ops, seen>>

\* let _ = old_tracer.child.kill();
\* a running process dies of the signal; a process that already exited is
\* left as it is and the error, if any, is ignored
Kill(t) ==
    /\ pc[t] = "kill"
    /\ LET p == tracer.child IN
          /\ procs' = IF procs[p].state = "running"
                      THEN [procs EXCEPT ![p].state = "exited", ![p].status = "signal9",
                                         ![p].errOpen = FALSE]
                      ELSE procs
          /\ ops' = [ops EXCEPT ![t] = Append(@, Op("kill", p, <<>>))]
    /\ pc' = [pc EXCEPT ![t] = "wait"]
    /\ UNCHANGED <<tracer, owner, calls, req, locals, result, seen>>

\* variant: the old process is killed and never waited for
WaitNotCalled(t) ==
    /\ pc[t] = "wait"
    /\ pc' = [pc EXCEPT ![t] = "spawn_new"]
    /\ UNCHANGED <<tracer, owner, procs, calls, req, locals, result, ops, seen>>

\* let _ = old_tracer.child.wait(); blocks until the process has exited
Wait(t) ==
    /\ pc[t] = "wait"
    /\ LET p == tracer.child IN
          /\ procs[p].state = "exited"
          /\ procs' = Reap(p)
          /\ ops' = [ops EXCEPT ![t] = Append(@, Op("wait", p, <<>>))]
    /\ pc' = [pc EXCEPT ![t] = "spawn_new"]
    /\ UNCHANGED <<tracer, owner, calls, req, locals, result, seen>>

\* *tracer_guard = Some(Tracer::spawn(&req)?) of the flow switch
SpawnNew(t) ==
    /\ pc[t] = "spawn_new"
    /\ Spawn(t, "send")
    /\ UNCHANGED <<calls, req>>

\* if !is_first_call { writeln!(tracer.stdin, "{}", req.stop_line)?; ... }
\* the write fails (broken pipe) when the process has exited
Send(t) ==
    /\ pc[t] = "send"
    /\ LET p == tracer.child
           data == writeln_fmt(req[t].stop_line) IN
       IF is_first_call(first_time[t], needs_new_tracer[t])
       THEN /\ pc' = [pc EXCEPT ![t] = "try_wait1"]
            /\ UNCHANGED <<procs, ops, owner, result, locals, seen>>
       ELSE IF procs[p].state = "running"
       THEN /\ procs' = [procs EXCEPT ![p].stdin = Append(@, data),
                                      ![p].owed = @ + 1,
                                      ![p].target = trim(data)]
            /\ ops' = [ops EXCEPT ![t] = Append(@, Op("write", p, data))]
            /\ pc' = [pc EXCEPT ![t] = "flush"]
            /\ UNCHANGED <<owner, result, locals, seen>>
       ELSE /\ ops' = [ops EXCEPT ![t] = Append(@, Op("write", p, data))]
            /\ Return(t, Err("WriteError", "none", <<>>))
            /\ UNCHANGED procs
    /\ UNCHANGED <<tracer, calls, req>>

\* variant: the guard is dropped once the continuation is sent, before the
\* blocking read
FlushAndUnlock(t) ==
    /\ pc[t] = "flush"
    /\ ops' = [ops EXCEPT ![t] = Append(@, Op("flush", tracer.child, <<>>))]
    /\ pc' = [pc EXCEPT ![t] = "try_wait1"]
    /\ owner' = 0
    /\ UNCHANGED <<tracer, procs, calls, req, locals, result, seen>>

\* tracer.stdin.flush()?: ChildStdin holds no buffer, the flush succeeds
Flush(t) ==
    /\ pc[t] = "flush"
    /\ ops' = [ops EXCEPT ![t] = Append(@, Op("flush", tracer.child, <<>>))]
    /\ pc' = [pc EXCEPT ![t] = "try_wait1"]
    /\ UNCHANGED <<tracer, owner, procs, calls, req, locals, result, seen>>

\* if let Ok(Some(status)) = tracer.child.try_wait() { return Err(..) }
TryWait1(t) ==
    /\ pc[t] = "try_wait1"
    /\ LET p == tracer.child IN
       IF try_wait(p) # "none"
       THEN /\ procs' = Reap(p)
            /\ Return(t, Err("ExitedBeforeRead", try_wait(p), <<>>))
       ELSE /\ pc' = [pc EXCEPT ![t] = "read"]
            /\ UNCHANGED <<procs, owner, result, locals, seen>>
    /\ UNCHANGED <<tracer, calls, req, ops>>

\* a line of diagnostics, no event
DiagLine == <<"W", NL>>

\* the pause point the next line of p's event channel was emitted for (0 for
\* a line of diagnostics) and the pause
\* point p was last sent to (1 at start, one more per continuation written);
\* nothing when the channel holds no line
ReadPoints(p) ==
    LET asked == 1 + Len(procs[p].stdin)
        q == procs[p].stderr
        answers == Cardinality({i \in 1..Len(q) : q[i] # DiagLine})
    IN  IF q = <<>> THEN <<>>
        ELSE IF Head(q) = DiagLine THEN <<0, asked>>
        ELSE <<(asked - procs[p].owed) - answers + 1, asked>>

\* let read_result = tracer.stderr.read_line(&mut line);
\* blocks until a line is there or the write end of the pipe is closed
Read(t) ==
    /\ pc[t] = "read"
    /\ LET p == tracer.child IN
          /\ procs[p].stderr # <<>> \/ ~procs[p].errOpen
          /\ ops' = [ops EXCEPT ![t] = Append(@, Op("read", p, ReadPoints(p)))]
          /\ IF procs[p].stderr = <<>>
             THEN /\ read_result' = [read_result EXCEPT ![t] = "Ok0"]
                  /\ UNCHANGED <<line, procs>>
             ELSE /\ procs' = [procs EXCEPT ![p].stderr = Tail(@)]
                  /\ IF is_utf8(Head(procs[p].stderr))
                     THEN /\ line' = [line EXCEPT ![t] = Head(procs[p].stderr)]
                          /\ read_result' = [read_result EXCEPT ![t] = "Ok"]
                     ELSE /\ read_result' = [read_result EXCEPT ![t] = "Err"]
                          /\ UNCHANGED line
    /\ pc' = [pc EXCEPT ![t] = "try_wait2"]
    /\ UNCHANGED <<tracer, owner, calls, req, first_time, needs_new_tracer, result, seen>>

\* if let Ok(Some(status)) = tracer.child.try_wait() {
\*     if line.trim().is_empty() { return Err(..) } }
TryWait2(t) ==
    /\ pc[t] = "try_wait2"
    /\ LET p == tracer.child IN
       IF try_wait(p) # "none"
       THEN /\ procs' = Reap(p)
            /\ IF trim(line[t]) = <<>>
               THEN Return(t, Err("ExitedBeforeSend", try_wait(p), <<>>))
               ELSE /\ pc' = [pc EXCEPT ![t] = "match"]
                    /\ UNCHANGED <<owner, result, locals, seen>>
       ELSE /\ pc' = [pc EXCEPT ![t] = "match"]
            /\ UNCHANGED <<procs, owner, result, locals, seen>>
    /\ UNCHANGED <<tracer, calls, req, ops>>

\* match read_result { Ok(0) => .., Ok(_) => .., Err(e) => .. }
Match(t) ==
    /\ pc[t] = "match"
    /\ LET p == tracer.child IN
       IF read_result[t] = "Ok"
       THEN /\ pc' = [pc EXCEPT ![t] = "codec"]
            /\ UNCHANGED <<procs, owner, result, locals, seen>>
       ELSE /\ procs' = IF try_wait(p) # "none" THEN Reap(p) ELSE procs
            /\ Return(t,
                  IF read_result[t] = "Ok0"
                  THEN IF try_wait(p) # "none"
                       THEN Err("ExitedBeforeSend", try_wait(p), <<>>)
                       ELSE Err("Eof", "none", <<>>)
                  ELSE IF try_wait(p) # "none"
                       THEN Err("ExitedWhileReading", try_wait(p), <<>>)
                       ELSE Err("ReadError", "none", <<>>))
    /\ UNCHANGED <<tracer, calls, req, ops>>

\* the line-to-result mapping that ends get_tracer_data
decode(raw) ==
    LET l == trim(raw) IN
    IF l = <<>> THEN Err("Empty", "none", <<>>)
    ELSE IF from_str(l).ok THEN Ok(from_str(l).value)
    ELSE IF starts_with(l, Str_Exception) \/ starts_with(l, Str_Traceback)
            \/ starts_with(l, Str_Error)
         THEN Err("ProcessReported", "none", l)
         ELSE Err("Malformed", "none", cut(l, ErrLimit))

\* the two places where the line is cut: the log of the received line and
\* the text of a parse failure without error marker
decode_panics(raw) ==
    LET l == trim(raw) IN
    \/ cut_panics(l, LogLimit)
    \/ /\ l # <<>> /\ ~from_str(l).ok
       /\ ~(starts_with(l, Str_Exception) \/ starts_with(l, Str_Traceback)
            \/ starts_with(l, Str_Error))
       /\ cut_panics(l, ErrLimit)

\* variant: a line that is no event ends the session
CodecTearingDown(t) ==
    /\ pc[t] = "codec"
    /\ IF decode_panics(line[t]) THEN Panic(t, TRUE) ELSE Return(t, decode(line[t]))
    /\ tracer' = IF ~decode_panics(line[t]) /\ decode(line[t]).kind = "Ok"
                 THEN tracer ELSE None
    /\ UNCHANGED <<procs, calls, req, ops>>

\* let line = line.trim(); println!(..); ... Ok(event_json)
Codec(t) ==
    /\ pc[t] = "codec"
    /\ IF decode_panics(line[t]) THEN Panic(t, TRUE) ELSE Return(t, decode(line[t]))
    /\ UNCHANGED <<tracer, procs, calls, req, ops>>

(***************************************************************************)
(* The trace process (tools/get_tracer.py), as the interface describes it. *)
(***************************************************************************)
\* the lines a process may put on its event channel for the pause point it
\* reached: the event, an empty line, its own failure text, other text,
\* bytes that are not UTF-8
\* a JSON string of 202 bytes whose byte 200 lies inside a character
WideLine == <<"\"">> \o [i \in 1..198 |-> "a"] \o <<WideChar, "\"", NL>>

EventLines(p) ==
    { procs[p].target \o <<NL>>,
      <<NL>>,
      Str_Error \o <<" ", "x", NL>>,
      <<"x", NL>>,
      <<BadByte, NL>>,
      WideLine }

\* what a process may put on its event channel when it reaches a pause
\* point: one of the lines above, or a line of diagnostics and then the
\* event, the channel being the one diagnostics go to
Emissions(p) ==
    {<<l>> : l \in EventLines(p)} \cup {<<DiagLine, procs[p].target \o <<NL>>>>}

ProcEmit(p) ==
    /\ procs[p].state = "running"
    /\ procs[p].errOpen
    /\ procs[p].owed > 0
    /\ \E ls \in Emissions(p) :
          procs' = [procs EXCEPT ![p].stderr = @ \o ls, ![p].owed = @ - 1]
    /\ UNCHANGED <<tracer, owner, calls, pc, req, locals, result, ops, seen>>

ProcCloseStderr(p) ==
    /\ procs[p].state = "running"
    /\ procs[p].errOpen
    /\ procs' = [procs EXCEPT ![p].errOpen = FALSE]
    /\ UNCHANGED <<tracer, owner, calls, pc, req, locals, result, ops, seen>>

ProcExit(p) ==
    /\ procs[p].state = "running"
    /\ \E st \in {"exit0", "exit1"} :
          procs' = [procs EXCEPT ![p].state = "exited", ![p].status = st,
                                 ![p].errOpen = FALSE]
    /\ UNCHANGED <<tracer, owner, calls, pc, req, locals, result, ops, seen>>

(***************************************************************************)
(* get_function_signature: a one-shot run of the script, no shared state.  *)
(***************************************************************************)
\* what the one-shot process may leave on its standard output
SigOutputs == {<<"{", "}", NL>>, <<"x", NL>>}

\* the body of get_function_signature after Command::output(): the process
\* could not be started, exited with a failure status, or exited with
\* success and its standard output is parsed as one JSON value
signature_result(started, status, stdout) ==
    IF ~started THEN Err("SigRunError", "none", <<>>)
    ELSE IF status # "exit0" THEN Err("SigScriptError", status, stdout)
    ELSE IF from_str(stdout).ok THEN Ok(from_str(stdout).value)
    ELSE Err("SigParseError", "none", stdout)

\* the command is invoked, once
SigCall ==
    /\ pc[SigCaller] = "idle"
    /\ result[SigCaller].kind = "pending"
    /\ pc' = [pc EXCEPT ![SigCaller] = "output"]
    /\ UNCHANGED <<tracer, owner, procs, calls, req, locals, result, ops, seen>>

\* variant: the result is given under the lock of the shared slot
SigOutputLocked ==
    /\ pc[SigCaller] = "output"
    /\ lock_free
    /\ \E started \in BOOLEAN, status \in {"exit0", "exit1"}, stdout \in SigOutputs :
          result' = [result EXCEPT ![SigCaller] = signature_result(started, status, stdout)]
    /\ pc' = [pc EXCEPT ![SigCaller] = "idle"]
    /\ UNCHANGED <<tracer, owner, procs, calls, req, locals, ops, seen>>

\* Command::new(..)...output(), the checks of its outcome, the return
SigOutput ==
    /\ pc[SigCaller] = "output"
    /\ \E started \in BOOLEAN, status \in {"exit0", "exit1"}, stdout \in SigOutputs :
          result' = [result EXCEPT ![SigCaller] = signature_result(started, status, stdout)]
    /\ pc' = [pc EXCEPT ![SigCaller] = "idle"]
    /\ UNCHANGED <<tracer, owner, procs, calls, req, locals, ops, seen>>

Next ==
    \/ \E t \in Threads : Call(t)
    \/ \E t \in Threads : Acquire(t)
    \/ \E t \in Threads : LockPoisoned(t)
    \/ \E t \in Threads : SpawnFirst(t)
    \/ \E t \in Threads : CheckFlow(t)
    \/ \E t \in Threads : Kill(t)
    \/ \E t \in Threads : Wait(t)
    \/ \E t \in Threads : SpawnNew(t)
    \/ \E t \in Threads : Send(t)
    \/ \E t \in Threads : Flush(t)
    \/ \E t \in Threads : TryWait1(t)
    \/ \E t \in Threads : Read(t)
    \/ \E t \in Threads : TryWait2(t)
    \/ \E t \in Threads : Match(t)
    \/ \E t \in Threads : Codec(t)
    \/ \E p \in Pids : ProcEmit(p)
    \/ \E p \in Pids : ProcCloseStderr(p)
    \/ \E p \in Pids : ProcExit(p)

Spec == Init /\ [][Next]_vars

\* get_tracer_data and get_function_signature side by side
NextSig ==
    \/ Next
    \/ SigCall
    \/ SigOutput

SpecSig == Init /\ [][NextSig]_vars

(***************************************************************************)
(* The line-to-result mapping on its own: a request that has spawned its   *)
(* process and read some line.                                             *)
(***************************************************************************)
CodecChars == {" ", "0", "1", "x", "{", "}"}

CodecMarkers == {Str_Error, Str_Exception, Str_Traceback}

\* every text of at most MaxLineLen of the characters, the markers with and
\* without a character after them, the line of 202 bytes; each ends with a
\* newline
CodecLines ==
    LET short == UNION {[1..n -> CodecChars] : n \in 0..MaxLineLen}
        marked == {m \o b : m \in CodecMarkers, b \in {<<>>, <<" ">>, <<"x">>}}
    IN  {b \o <<NL>> : b \in short \cup marked} \cup {WideLine}

InitCodec ==
    LET r == [entry_full_id |-> "f1", args_json |-> "[]", stop_line |-> 5] IN
    /\ tracer = Some(1, "f1")
    /\ owner = 1
    /\ procs = <<[NewProc(r) EXCEPT !.owed = 0]>>
    /\ calls = 1
    /\ pc = [t \in Threads \cup {SigCaller} |-> IF t = 1 THEN "codec" ELSE "idle"]
    /\ req = [t \in Threads |-> IF t = 1 THEN r ELSE NoReq]
    /\ first_time = [t \in Threads |-> t = 1]
    /\ needs_new_tracer = [t \in Threads |-> FALSE]
    /\ line \in {[t \in Threads |-> IF t = 1 THEN l ELSE <<>>] : l \in CodecLines}
    /\ read_result = [t \in Threads |-> IF t = 1 THEN "Ok" ELSE "none"]
    /\ result = [t \in Threads \cup {SigCaller} |-> NoResult]
    /\ ops = [t \in Threads |->
                IF t = 1 THEN <<Op("spawn", 1, <<>>), Op("read", 1, <<1, 1>>)>> ELSE <<>>]
    /\ seen = [t \in Threads |-> None]

NextCodec == \E t \in Threads : Codec(t)

SpecCodec == InitCodec /\ [][NextCodec]_vars

(***************************************************************************)
(* Vocabulary of the properties.                                           *)
(***************************************************************************)
OpNames(t) == [i \in 1..Len(ops[t]) |-> ops[t][i].op]

HasOp(t, name) == \E i \in 1..Len(ops[t]) : ops[t][i].op = name

CountOp(t, name) == Cardinality({i \in 1..Len(ops[t]) : ops[t][i].op = name})

IsPrefix(s, full) == Len(s) <= Len(full) /\ SubSeq(full, 1, Len(s)) = s

\* the invocation of t has returned to its caller
Returned(t) == pc[t] = "idle" /\ result[t].kind # "pending"

\* the invocation of t found an empty slot when it took the lock
FoundNone(t) == pc[t] # "lock" /\ req[t] # NoReq /\ is_none(seen[t])

\* the invocation of t found a session of another flow
FoundOtherFlow(t) == is_some(seen[t]) /\ seen[t].current_flow # req[t].entry_full_id

\* the invocation of t found a session of its own flow
FoundSameFlow(t) == is_some(seen[t]) /\ seen[t].current_flow = req[t].entry_full_id

\* the process was started with the parameters of request r
StartedWith(p, r) ==
    /\ procs[p].entry_full_id = r.entry_full_id
    /\ procs[p].args_json = r.args_json
    /\ procs[p].stop_line = r.stop_line

\* positions after the flow check and the optional restart
PastSend == {"flush", "try_wait1", "read", "try_wait2", "match", "codec"}

(***************************************************************************)
(* Properties.                                                             *)
(***************************************************************************)
\* C1: an invocation that spawns a process never writes to an input pipe: it
\* starts the process with its own entry_full_id, args_json and stop_line
\* and reads at most one line; a write is only made by an invocation that
\* found a session whose current_flow is its own entry_full_id.
C1_SpawnerNeverWrites ==
    \A t \in Threads :
       /\ HasOp(t, "spawn") =>
             /\ ~HasOp(t, "write")
             /\ CountOp(t, "read") <= 1
             /\ \A i \in 1..Len(ops[t]) :
                   ops[t][i].op = "spawn" => StartedWith(ops[t][i].pid, req[t])
       /\ HasOp(t, "write") => FoundSameFlow(t)

\* C1 witness: a first request has spawned, read its line without writing
\* and returned the event
C1_Witness ==
    \E t \in Threads :
       /\ Returned(t) /\ result[t].kind = "Ok"
       /\ FoundNone(t)
       /\ OpNames(t) = <<"spawn", "read">>

\* C2: an invocation that finds a session of another flow kills the old
\* process, waits for it, and only then spawns the replacement, started
\* with the parameters of this request; it writes nothing and what it
\* reads it reads from the replacement.
C2_KillWaitThenSpawn ==
    \A t \in Threads :
       FoundOtherFlow(t) =>
          LET old == seen[t].child IN
          /\ IsPrefix(OpNames(t), <<"kill", "wait", "spawn", "read">>)
          /\ pc[t] \in {"wait", "spawn_new"} \cup PastSend \cup {"send"} => Len(ops[t]) >= 1
          /\ pc[t] \in {"send"} \cup PastSend => Len(ops[t]) >= 3
          /\ \A i \in 1..Len(ops[t]) :
                /\ ops[t][i].op \in {"kill", "wait"} => ops[t][i].pid = old
                /\ ops[t][i].op = "spawn" =>
                      /\ procs[old].state = "exited" /\ procs[old].reaped
                      /\ ops[t][i].pid # old
                      /\ StartedWith(ops[t][i].pid, req[t])
                /\ ops[t][i].op = "read" => ops[t][i].pid = ops[t][3].pid

\* C2 witness: a flow switch that killed, waited, spawned and read
C2_Witness ==
    \E t \in Threads :
       /\ FoundOtherFlow(t)
       /\ OpNames(t) = <<"kill", "wait", "spawn", "read">>
       /\ Returned(t) /\ result[t].kind = "Ok"

\* the processes whose exit the controller has not collected
Unreaped == {p \in Pids : ~procs[p].reaped}

\* C3: there is never more than one trace process whose exit has not been
\* observed, and such a process is the one held by the slot.
C3_AtMostOneLiveProcess ==
    /\ Cardinality(Unreaped) <= 1
    /\ \A p \in Unreaped : is_some(tracer) /\ tracer.child = p

\* C3 witness: a request is at work on a live process while another
\* request waits for the lock
C3_Witness ==
    \E t1, t2 \in Threads :
       /\ pc[t1] \in PastSend /\ pc[t2] = "lock"
       /\ is_some(tracer) /\ procs[tracer.child].state = "running"

TypeOK ==
    /\ owner \in Threads \cup {0, Poisoned}
    /\ calls \in 0..MaxCalls
    /\ \A t \in Threads : pc[t] \in Critical \cup {"idle", "lock", "panicked"}
    /\ pc[SigCaller] \in {"idle", "output"}

\* the results that report a dead process or a failed pipe operation
TeardownErrors ==
    {"Eof", "WriteError", "ReadError", "ExitedBeforeRead", "ExitedBeforeSend",
     "ExitedWhileReading"}

\* C4: a request that returns an EOF, pipe or process-exit error leaves the
\* slot empty.
C4_FailureClearsStore ==
    [][\A t \in Threads :
          (result[t].kind = "pending" /\ result'[t].kind \in TeardownErrors)
             => is_none(tracer')]_vars

Last(s) == s[Len(s)]

\* C5: no write to the input pipe and no read of the event channel is made
\* on a process whose exit the controller has already observed.
C5_NoIoAfterObservedExit ==
    [][\A t \in Threads :
          (Len(ops'[t]) = Len(ops[t]) + 1 /\ Last(ops'[t]).op \in {"write", "read"})
             => ~procs[Last(ops'[t]).pid].reaped]_vars

\* C6: a request that returns a spawn error leaves the slot empty, on the
\* first spawn and on the replacement spawn of a flow switch alike.
C6_SpawnFailureLeavesStoreEmpty ==
    [][\A t \in Threads :
          (result[t].kind = "pending" /\ result'[t].kind = "SpawnError")
             => is_none(tracer')]_vars

\* the line a continuation for the stop lines of Requests must put on the pipe
ExpectedContinuation(n) == IF n = 5 THEN <<"5", "\n">> ELSE <<"2", "0", "\n">>

\* C7 as stated: every returned continuation request has done exactly
\* write, flush, read.
C7_AlwaysWriteFlushRead ==
    \A t \in Threads :
       (Returned(t) /\ FoundSameFlow(t)) => OpNames(t) = <<"write", "flush", "read">>

\* C7 as amended: a continuation request does write (the decimal stop line
\* and a newline), flush, read on the session's process, in this order and
\* at most once each; it stops after the write exactly when the write
\* failed and after the flush exactly when the process was found exited;
\* no request reads more than one line, and a request has a result exactly
\* when it has returned.
C7_ContinuationProtocol ==
    \A t \in Threads :
       /\ CountOp(t, "read") <= 1
       /\ pc[t] # "idle" => result[t].kind = "pending"
       /\ (pc[t] = "idle" /\ req[t] # NoReq) => result[t].kind # "pending"
       /\ FoundSameFlow(t) =>
             /\ IsPrefix(OpNames(t), <<"write", "flush", "read">>)
             /\ \A i \in 1..Len(ops[t]) : ops[t][i].pid = seen[t].child
             /\ HasOp(t, "write") => ops[t][1].data = ExpectedContinuation(req[t].stop_line)
             /\ pc[t] = "flush" => Len(ops[t]) = 1
             /\ pc[t] \in {"try_wait1", "read"} => Len(ops[t]) = 2
             /\ pc[t] \in {"try_wait2", "match", "codec"} => Len(ops[t]) = 3
             /\ Returned(t) =>
                   Len(ops[t]) = CASE result[t].kind = "WriteError" -> 1
                                   [] result[t].kind = "ExitedBeforeRead" -> 2
                                   [] OTHER -> 3

\* C7 witness: a continuation to line 20 wrote "20\n", flushed, read and
\* returned the event
C7_Witness ==
    \E t \in Threads :
       /\ Returned(t) /\ FoundSameFlow(t) /\ result[t].kind = "Ok"
       /\ req[t].stop_line = 20
       /\ OpNames(t) = <<"write", "flush", "read">>
       /\ ops[t][1].data = <<"2", "0", "\n">>

\* C8: a request that found a session is a flow switch (kill, wait, spawn)
\* exactly when its entry_full_id differs from the session's current_flow;
\* with the same entry_full_id it kills nothing, spawns nothing and sends the
\* continuation, whatever its args_json and stop_line.
C8_SwitchIffEntryDiffers ==
    \A t \in Threads :
       (is_some(seen[t]) /\ (pc[t] \in Critical \ {"check_flow"} \/ Returned(t))) =>
          LET switched == pc[t] = "kill" \/ HasOp(t, "kill") IN
          /\ switched <=> seen[t].current_flow # req[t].entry_full_id
          /\ ~switched =>
                /\ ~HasOp(t, "spawn") /\ ~HasOp(t, "wait")
                /\ pc[t] # "send" =>
                      /\ ops[t] # <<>>
                      /\ ops[t][1].op = "write" /\ ops[t][1].pid = seen[t].child

\* C8 witness: a request with the session's entry_full_id, the stop line
\* the process was started at and other arguments went through as a
\* continuation
C8_Witness ==
    \E t \in Threads :
       /\ Returned(t) /\ result[t].kind = "Ok" /\ FoundSameFlow(t)
       /\ procs[seen[t].child].args_json # req[t].args_json
       /\ procs[seen[t].child].stop_line = req[t].stop_line
       /\ OpNames(t) = <<"write", "flush", "read">>

\* C9: a thread is inside the step protocol exactly while it holds the
\* lock, from its first action to its return, so no two requests are
\* inside the protocol together.
C9_ProtocolInsideOneLock ==
    /\ \A t \in Threads : pc[t] \in Critical <=> owner = t
    /\ Cardinality({t \in Threads : pc[t] \in Critical}) <= 1

\* C9 witness: a request blocked in the read of a silent, running process
\* holds the lock while another request waits for it
C9_Witness ==
    \E t1, t2 \in Threads :
       /\ pc[t1] = "read" /\ owner = t1 /\ pc[t2] = "lock"
       /\ procs[tracer.child].state = "running"
       /\ procs[tracer.child].stderr = <<>>
       /\ ~ENABLED Acquire(t2)

\* C10: a request that returns the process's own failure text returns it as
\* read and leaves the slot empty, the process terminated.
C10_ReportedErrorTearsDown ==
    [][\A t \in Threads :
          (result[t].kind = "pending" /\ result'[t].kind = "ProcessReported")
             => /\ result'[t].text = trim(line[t])
                /\ is_none(tracer')]_vars

\* C11: a request that read an empty line returns the empty-event error and
\* leaves the slot empty.
C11_EmptyLineTearsDown ==
    [][\A t \in Threads :
          (/\ result[t].kind = "pending" /\ result'[t].kind # "pending"
           /\ read_result[t] = "Ok" /\ trim(line[t]) = <<>>)
             => (result'[t].kind = "Empty" /\ is_none(tracer'))]_vars

\* the results that name the exit status of the process
ExitedErrors == {"ExitedBeforeRead", "ExitedBeforeSend", "ExitedWhileReading"}

\* the process has put no line on its event channel since it was started
EmittedNothing(p) == procs[p].owed = 1 + Len(procs[p].stdin) /\ procs[p].stderr = <<>>

\* C12: when the process a request spawned has exited with status 1 without
\* emitting a line, the request, once returned, has returned the
\* process-exited error naming that status.
C12_ExitNamedInEveryInterleaving ==
    \A t \in Threads :
       (Returned(t) /\ HasOp(t, "spawn")) =>
          LET p == Last(ops[t]).pid IN
          (/\ is_some(tracer) /\ tracer.child = p
           /\ procs[p].state = "exited" /\ procs[p].status = "exit1"
           /\ procs[p].stdin = <<>>
           /\ EmittedNothing(p))
             => (result[t].kind \in ExitedErrors /\ result[t].status = "exit1")

\* C13: a request that returns the empty-event or the malformed-event error
\* while the process is running leaves the slot and the process as they
\* were: same process, same current_flow, nothing killed.
C13_ProtocolErrorKeepsSession ==
    [][\A t \in Threads :
          (/\ result[t].kind = "pending"
           /\ result'[t].kind \in {"Empty", "Malformed"}
           /\ procs[tracer.child].state = "running")
             => /\ is_some(tracer) /\ tracer' = tracer
                /\ procs' = procs
                /\ Last(ops[t]).op = "read" /\ Last(ops[t]).pid = tracer.child]_vars

\* C13 witness: after a request returned the empty-event error, the next
\* request of the same flow went on as a continuation on the same running
\* process
C13_Witness ==
    \E t, u \in Threads :
       /\ Returned(t) /\ result[t].kind = "Empty"
       /\ Returned(u) /\ result[u].kind = "Ok" /\ FoundSameFlow(u)
       /\ OpNames(u) = <<"write", "flush", "read">>
       /\ Last(ops[t]).pid = Last(ops[u]).pid
       /\ tracer.child = Last(ops[t]).pid
       /\ procs[tracer.child].state = "running"

\* C16: the slot's session is replaced or removed only after its process was
\* killed and then waited for by the replacing request, and every process
\* the slot does not hold has exited and been waited for.
C16_NoOrphan ==
    [][/\ (is_some(tracer) /\ tracer' # tracer) =>
             /\ procs[tracer.child].state = "exited" /\ procs[tracer.child].reaped
             /\ \E t \in Threads :
                   /\ Len(ops[t]) >= 2
                   /\ ops[t][1] = Op("kill", tracer.child, <<>>)
                   /\ ops[t][2] = Op("wait", tracer.child, <<>>)
                   /\ ops'[t] # ops[t]
       /\ \A p \in 1..Len(procs') :
             (is_none(tracer') \/ tracer'.child # p) =>
                (procs'[p].state = "exited" /\ procs'[p].reaped)]_vars

\* C16 witness: a replaced process, exited and waited for, beside the
\* running process that replaced it
C16_Witness ==
    /\ Len(procs) = 2 /\ tracer.child = 2
    /\ procs[2].state = "running"
    /\ procs[1].status = "signal9" /\ procs[1].reaped

\* C17: the slot's current_flow is the entry_full_id its process was
\* started with, and the slot changes only in a step in which a request
\* spawns a process, to that request's entry_full_id.
C17_FlowIsSpawningRequest ==
    [][/\ is_some(tracer') =>
             tracer'.current_flow = procs'[tracer'.child].entry_full_id
       /\ tracer' # tracer =>
             \E t \in Threads :
                /\ ops'[t] = Append(ops[t], Op("spawn", tracer'.child, <<>>))
                /\ tracer'.child = Len(procs) + 1
                /\ tracer'.current_flow = req[t].entry_full_id]_vars

\* C17 witness: after a flow switch the slot names the new flow, and the
\* failed request that followed has not changed it
C17_Witness ==
    /\ Len(procs) = 2 /\ tracer = Some(2, "f2")
    /\ procs[1].entry_full_id = "f1"

\* C20: the event a request returns after sending a continuation is the
\* line the process emitted for the pause point that continuation asked
\* for, never a line of an earlier pause point, and it is the event of the
\* request's stop line.
C20_EventAnswersOwnContinuation ==
    \A t \in Threads :
       (Returned(t) /\ result[t].kind = "Ok" /\ HasOp(t, "write")) =>
          /\ Last(ops[t]).op = "read"
          /\ Last(ops[t]).data # <<>>
          /\ Last(ops[t]).data[1] = Last(ops[t]).data[2]
          /\ result[t].value.json = "number"
          /\ result[t].value.n = req[t].stop_line
\* the line has nothing but whitespace
IsBlank(s) == \A i \in 1..Len(s) : s[i] \in Whitespace

HasMarker(s) == \E m \in CodecMarkers : starts_with(s, m)

\* C14: a step of get_function_signature changes nothing but its own
\* position and result (slot, lock, processes, pipes and every step request
\* stay as they are), whatever its outcome, and it never waits: it can be
\* invoked and can complete in every state, whoever holds the lock.
C14_SignatureTouchesNoSession ==
    [][/\ (pc'[SigCaller] # pc[SigCaller] \/ result'[SigCaller] # result[SigCaller])
            => /\ UNCHANGED <<tracer, owner, procs, calls, req, locals, ops, seen>>
               /\ \A t \in Threads : pc'[t] = pc[t] /\ result'[t] = result[t]
       /\ pc[SigCaller] = "output" => ENABLED SigOutput
       /\ (pc[SigCaller] = "idle" /\ result[SigCaller].kind = "pending") => ENABLED SigCall
       /\ result[SigCaller].kind \in
             {"pending", "Ok", "SigRunError", "SigScriptError", "SigParseError"}]_vars

\* C14 witness: the signature query has returned its JSON value while a
\* step request, holding the lock, is blocked in the read of a silent
\* process and another waits for the lock; the session is there
C14_Witness ==
    /\ pc[SigCaller] = "idle" /\ result[SigCaller].kind = "Ok"
    /\ \E t, u \in Threads :
          /\ pc[t] = "read" /\ owner = t /\ pc[u] = "lock"
          /\ tracer = Some(1, req[t].entry_full_id)
          /\ procs[1].state = "running" /\ procs[1].errOpen /\ procs[1].stderr = <<>>

\* C15: the line-to-result mapping gives every line exactly one of four
\* results: the empty-event error for a line of whitespace, the parsed
\* value for a line that is JSON, the process's own failure with the
\* trimmed text for a line that is not JSON and starts with a marker, the
\* malformed-event error with the trimmed text for any other line.
C15_FourOutcomesCoverEveryLine ==
    [][\A t \in Threads :
          (pc[t] = "codec" /\ pc'[t] # "codec") =>
             LET l == trim(line[t])
                 r == result'[t]
                 json == from_str(l).ok
             IN  /\ r.kind \in {"Empty", "Ok", "ProcessReported", "Malformed"}
                 /\ r.kind = "Empty" <=> IsBlank(line[t])
                 /\ r.kind = "Ok" <=> (~IsBlank(line[t]) /\ json)
                 /\ r.kind = "ProcessReported" <=>
                       (~IsBlank(line[t]) /\ ~json /\ HasMarker(l))
                 /\ r.kind = "Malformed" <=>
                       (~IsBlank(line[t]) /\ ~json /\ ~HasMarker(l))
                 /\ r.kind = "Ok" => r.value = from_str(l).value
                 /\ r.kind \in {"ProcessReported", "Malformed"} => r.text = l]_vars

\* C18: a request gives up the lock only by returning a result, which
\* leaves the lock free, and a request that stops waiting for the lock has
\* acquired it.
C18_LockReleasedAndAcquirable ==
    [][\A t \in Threads :
          /\ (pc[t] \in Critical /\ pc'[t] \notin Critical) =>
                (pc'[t] = "idle" /\ result'[t].kind # "pending" /\ owner' = 0)
          /\ (pc[t] = "lock" /\ pc'[t] # "lock") =>
                (owner' = t /\ pc'[t] \in Critical)]_vars

\* C19: whatever line was read, of whatever length, the request returns a
\* result and the lock is free again; a line that is JSON is returned as
\* the value of the whole line.
C19_AnyLineReturnsNormally ==
    [][\A t \in Threads :
          (pc[t] = "codec" /\ pc'[t] # "codec") =>
             /\ pc'[t] = "idle" /\ result'[t].kind # "pending"
             /\ owner' = 0
             /\ from_str(line[t]).ok => result'[t] = Ok(from_str(line[t]).value)]_vars

====
